---- MODULE Spec2Model ----
(***************************************************************************)
(* The NSX-T policy Service resource of the Terraform provider             *)
(* (src/nsxt/resource_nsxt_policy_service.go): the conversion of the six   *)
(* flat entry collections of the configuration into service-entry records  *)
(* (resourceNsxtPolicyServiceGetEntriesFromSchema), the decode loop of     *)
(* resourceNsxtPolicyServiceRead, and the Create / Read / Update / Delete  *)
(* handlers run against a remote services client.                          *)
(*                                                                         *)
(* Strings the code parses or prints (icmp_type, icmp_code) are sequences  *)
(* of one-character strings, so that strconv.Atoi and strconv.Itoa are     *)
(* computed digit by digit.  Every other string is atomic.                 *)
(* A Go pointer that may be nil (to an int64) is a sequence of length 0 or 1 *)
(* A service-entry record (data.StructValue) is a function from the names  *)
(* of the fields it carries to their values: a field that was nil when the *)
(* record was built is not in its domain.                                  *)
(***************************************************************************)
EXTENDS Integers, Sequences, FiniteSets, TLC

VARIABLES
    d,          \* lifecycle: the schema.ResourceData handed to the handlers
    remote,     \* lifecycle: the remote service object, or NoObj
    op,         \* lifecycle: what the last handler did (name, error, client calls)
    okReadRev,  \* lifecycle: revision stored by the last Read that returned nil
    getRev,     \* lifecycle: revision of the last object a Read got from the client
    cfg,        \* codec: a flat configuration (six collections)
    phase,      \* codec: "input", "encoded", "roundtrip", "received" or "decoded"
    listed,     \* codec: what d.Get(key).List() returned for the six keys
    enc,        \* codec: what the encode pass returned
    wire,       \* codec: the records given to the decode loop
    dec         \* codec: what the decode loop built

vars == <<d, remote, op, okReadRev, getRev, cfg, phase, listed, enc, wire, dec>>
lifecycleVars == <<d, remote, op, okReadRev, getRev>>
codecVars == <<cfg, phase, listed, enc, wire, dec>>

-----------------------------------------------------------------------------
(* Bounds *)

\* Most entries in the icmp_entry collection of a configuration.
MaxIcmp == 2
\* Most entries in each of the five other collections.
MaxOther == 1
\* Most records in an entry list that the remote side returns.
MaxWire == 2
\* The remote revision counter stops growing here.
MaxRevision == 3

-----------------------------------------------------------------------------
(* strconv *)

NoErr == "nil"

DigitChars == <<"0", "1", "2", "3", "4", "5", "6", "7", "8", "9">>

IsDigit(c) == \E i \in DOMAIN DigitChars : DigitChars[i] = c

DigitVal(c) == (CHOOSE i \in DOMAIN DigitChars : DigitChars[i] = c) - 1

RECURSIVE ParseDigits(_, _)
ParseDigits(s, acc) ==
    IF s = <<>> THEN [err |-> NoErr, val |-> acc]
    ELSE IF ~IsDigit(Head(s)) THEN [err |-> "strconv.Atoi: invalid syntax", val |-> 0]
    ELSE ParseDigits(Tail(s), acc * 10 + DigitVal(Head(s)))

\* strconv.Atoi: an optional sign, then one or more decimal digits.  The
\* strings of the model are far too short to leave the range of int.
Atoi(s) ==
    IF s = <<>> THEN [err |-> "strconv.Atoi: invalid syntax", val |-> 0]
    ELSE IF Head(s) \in {"+", "-"}
    THEN IF Tail(s) = <<>>
         THEN [err |-> "strconv.Atoi: invalid syntax", val |-> 0]
         ELSE LET r == ParseDigits(Tail(s), 0)
              IN  IF r.err # NoErr THEN r
                  ELSE [err |-> NoErr, val |-> IF Head(s) = "-" THEN 0 - r.val ELSE r.val]
    ELSE ParseDigits(s, 0)

RECURSIVE FormatDigits(_)
FormatDigits(n) ==
    IF n < 10 THEN <<DigitChars[n + 1]>>
    ELSE Append(FormatDigits(n \div 10), DigitChars[(n % 10) + 1])

\* strconv.Itoa: the shortest decimal numeral, "-" first when negative.
Itoa(n) == IF n < 0 THEN <<"-">> \o FormatDigits(0 - n) ELSE FormatDigits(n)

-----------------------------------------------------------------------------
(* Helpers of the encode pass *)

\* newUUID(): the k-th identifier generated in one conversion pass.  The
\* identifiers of a pass are distinct; no user-chosen display name equals one.
newUUID(k) == "uuid-" \o ToString(k)

\* schema.Set.List(): the elements of a set in an order the caller does
\* not control; every order is a possible result.
SetLists(S) ==
    {s \in [1..Cardinality(S) -> S] : \A x \in S : \E i \in 1..Cardinality(S) : s[i] = x}

\* interface2StringList(set.List()) of a port set.  The decode side stores
\* the ports back into a set, so one order stands for all.
RECURSIVE interface2StringList(_)
interface2StringList(S) ==
    IF S = {} THEN <<>>
    ELSE LET x == CHOOSE y \in S : TRUE
         IN  <<x>> \o interface2StringList(S \ {x})

\* A struct field behind a pointer: left out of the record when nil.
WithOptional(rec, name, ptr) ==
    IF ptr = <<>> THEN rec ELSE rec @@ (name :> ptr[1])

-----------------------------------------------------------------------------
(* resourceNsxtPolicyServiceGetEntriesFromSchema *)

\* One iteration of the ICMP loop up to the construction of the record: the
\* two optional integers are parsed only when their string is not empty.
\* ptr is the pointer handed to the record, nil (<<>>) when the string is empty.
ParseOptional(str) ==
    IF str # <<>>
    THEN LET r == Atoi(str) IN [err |-> r.err, ptr |-> IF r.err = NoErr THEN <<r.val>> ELSE <<>>]
    ELSE [err |-> NoErr, ptr |-> <<>>]

\* A mutant of ICMPTypeServiceEntry: a nil type or code is sent as zero.
ICMPTypeServiceEntryZeroed(entryData, typePtr, codePtr, id) ==
    [id |-> id,
     display_name |-> entryData.display_name,
     description |-> entryData.description,
     protocol |-> entryData.protocol,
     resource_type |-> "ICMPTypeServiceEntry",
     icmp_type |-> IF typePtr = <<>> THEN 0 ELSE typePtr[1],
     icmp_code |-> IF codePtr = <<>> THEN 0 ELSE codePtr[1]]

\* model.ICMPTypeServiceEntry{...} converted with ConvertToVapi.
ICMPTypeServiceEntry(entryData, typePtr, codePtr, id) ==
    WithOptional(
        WithOptional(
            [id |-> id,
             display_name |-> entryData.display_name,
             description |-> entryData.description,
             protocol |-> entryData.protocol,
             resource_type |-> "ICMPTypeServiceEntry"],
            "icmp_type", typePtr),
        "icmp_code", codePtr)

\* A mutant of the ICMP loop: a parse failure returns an empty list.
RECURSIVE icmpEntriesLoopDiscarding(_, _)
icmpEntriesLoopDiscarding(icmpEntries, serviceEntries) ==
    IF icmpEntries = <<>> THEN [err |-> NoErr, serviceEntries |-> serviceEntries]
    ELSE LET entryData == Head(icmpEntries)
             t == ParseOptional(entryData.icmp_type)
             c == ParseOptional(entryData.icmp_code)
         IN  IF t.err # NoErr THEN [err |-> t.err, serviceEntries |-> <<>>]
             ELSE IF c.err # NoErr THEN [err |-> c.err, serviceEntries |-> <<>>]
             ELSE icmpEntriesLoopDiscarding(
                      Tail(icmpEntries),
                      Append(serviceEntries,
                             ICMPTypeServiceEntry(entryData, t.ptr, c.ptr,
                                                  newUUID(Len(serviceEntries) + 1))))

\* The loop over icmp_entry: on a parse failure it returns the error with the
\* list built so far.
RECURSIVE icmpEntriesLoop(_, _)
icmpEntriesLoop(icmpEntries, serviceEntries) ==
    IF icmpEntries = <<>> THEN [err |-> NoErr, serviceEntries |-> serviceEntries]
    ELSE LET entryData == Head(icmpEntries)
             t == ParseOptional(entryData.icmp_type)
             c == ParseOptional(entryData.icmp_code)
         IN  IF t.err # NoErr THEN [err |-> t.err, serviceEntries |-> serviceEntries]
             ELSE IF c.err # NoErr THEN [err |-> c.err, serviceEntries |-> serviceEntries]
             ELSE icmpEntriesLoop(
                      Tail(icmpEntries),
                      Append(serviceEntries,
                             ICMPTypeServiceEntry(entryData, t.ptr, c.ptr,
                                                  newUUID(Len(serviceEntries) + 1))))

\* model.L4PortSetServiceEntry{...}
L4PortSetServiceEntry(entryData, id) ==
    [id |-> id,
     display_name |-> entryData.display_name,
     description |-> entryData.description,
     destination_ports |-> interface2StringList(entryData.destination_ports),
     source_ports |-> interface2StringList(entryData.source_ports),
     l4_protocol |-> entryData.protocol,
     resource_type |-> "L4PortSetServiceEntry"]

\* model.IGMPTypeServiceEntry{...}
IGMPTypeServiceEntry(entryData, id) ==
    [id |-> id,
     display_name |-> entryData.display_name,
     description |-> entryData.description,
     resource_type |-> "IGMPTypeServiceEntry"]

\* model.EtherTypeServiceEntry{...}
EtherTypeServiceEntry(entryData, id) ==
    [id |-> id,
     display_name |-> entryData.display_name,
     description |-> entryData.description,
     ether_type |-> entryData.ether_type,
     resource_type |-> "EtherTypeServiceEntry"]

\* model.IPProtocolServiceEntry{...}
IPProtocolServiceEntry(entryData, id) ==
    [id |-> id,
     display_name |-> entryData.display_name,
     description |-> entryData.description,
     protocol_number |-> entryData.protocol,
     resource_type |-> "IPProtocolServiceEntry"]

\* model.ALGTypeServiceEntry{...}: destinationPorts is made empty and gets
\* the one destination port appended.
ALGTypeServiceEntry(entryData, id) ==
    [id |-> id,
     display_name |-> entryData.display_name,
     description |-> entryData.description,
     alg |-> entryData.algorithm,
     destination_ports |-> Append(<<>>, entryData.destination_port),
     source_ports |-> interface2StringList(entryData.source_ports),
     resource_type |-> "ALGTypeServiceEntry"]

\* The loops that cannot fail: every entry of `entries` becomes one record,
\* appended to serviceEntries with the next identifiers.
l4EntriesLoop(entries, serviceEntries) ==
    serviceEntries \o
    [i \in 1..Len(entries) |-> L4PortSetServiceEntry(entries[i], newUUID(Len(serviceEntries) + i))]

igmpEntriesLoop(entries, serviceEntries) ==
    serviceEntries \o
    [i \in 1..Len(entries) |-> IGMPTypeServiceEntry(entries[i], newUUID(Len(serviceEntries) + i))]

etherEntriesLoop(entries, serviceEntries) ==
    serviceEntries \o
    [i \in 1..Len(entries) |-> EtherTypeServiceEntry(entries[i], newUUID(Len(serviceEntries) + i))]

ipProtEntriesLoop(entries, serviceEntries) ==
    serviceEntries \o
    [i \in 1..Len(entries) |-> IPProtocolServiceEntry(entries[i], newUUID(Len(serviceEntries) + i))]

algEntriesLoop(entries, serviceEntries) ==
    serviceEntries \o
    [i \in 1..Len(entries) |-> ALGTypeServiceEntry(entries[i], newUUID(Len(serviceEntries) + i))]

\* A mutant of the encode pass: the collections are converted in the order
\* in which the read side tries the variants (IGMP last).
GetEntriesFromSchemaReadOrder(lists) ==
    LET icmp == icmpEntriesLoop(lists.icmp_entry, <<>>)
    IN  IF icmp.err # NoErr THEN icmp
        ELSE LET l4    == l4EntriesLoop(lists.l4_port_set_entry, icmp.serviceEntries)
                 ether == etherEntriesLoop(lists.ether_type_entry, l4)
                 ipProt == ipProtEntriesLoop(lists.ip_protocol_entry, ether)
                 alg   == algEntriesLoop(lists.algorithm_entry, ipProt)
                 igmp  == igmpEntriesLoop(lists.igmp_entry, alg)
             IN  [err |-> NoErr, serviceEntries |-> igmp]

\* The encode pass.  lists holds, for each of the six keys, what
\* d.Get(key).List() returned.  The result is the pair the function returns:
\* the error and the list of records.
resourceNsxtPolicyServiceGetEntriesFromSchema(lists) ==
    LET icmp == icmpEntriesLoop(lists.icmp_entry, <<>>)
    IN  IF icmp.err # NoErr THEN icmp
        ELSE LET l4    == l4EntriesLoop(lists.l4_port_set_entry, icmp.serviceEntries)
                 igmp  == igmpEntriesLoop(lists.igmp_entry, l4)
                 ether == etherEntriesLoop(lists.ether_type_entry, igmp)
                 ipProt == ipProtEntriesLoop(lists.ip_protocol_entry, ether)
                 alg   == algEntriesLoop(lists.algorithm_entry, ipProt)
             IN  [err |-> NoErr, serviceEntries |-> alg]

\* Every result of calling d.Get(key).List() on the six collections of c.
Listings(c) ==
    {[icmp_entry |-> i, l4_port_set_entry |-> l, igmp_entry |-> g,
      ether_type_entry |-> e, ip_protocol_entry |-> p, algorithm_entry |-> a] :
        i \in SetLists(c.icmp_entry), l \in SetLists(c.l4_port_set_entry),
        g \in SetLists(c.igmp_entry), e \in SetLists(c.ether_type_entry),
        p \in SetLists(c.ip_protocol_entry), a \in SetLists(c.algorithm_entry)}

-----------------------------------------------------------------------------
(* The decode loop of resourceNsxtPolicyServiceRead *)

\* The binding types of the six variants, as the fields a record must carry
\* for converter.ConvertToGolang to return no error: the fields of the model
\* struct that are neither pointers nor optional lists.
ICMPTypeServiceEntryBindingType == {"resource_type", "protocol"}
L4PortSetServiceEntryBindingType == {"resource_type", "l4_protocol"}
EtherTypeServiceEntryBindingType == {"resource_type", "ether_type"}
IPProtocolServiceEntryBindingType == {"resource_type", "protocol_number"}
ALGTypeServiceEntryBindingType == {"resource_type", "alg", "destination_ports"}
IGMPTypeServiceEntryBindingType == {"resource_type"}

\* converter.ConvertToGolang(entry, bindingType): TRUE when errs == nil.
ConvertToGolang(entry, bindingType) == bindingType \subseteq DOMAIN entry

\* A mutant of filterServiceEntryDisplayName: the name is passed through.
filterServiceEntryDisplayNameOff(entryDisplayName, entryID) == entryDisplayName

filterServiceEntryDisplayName(entryDisplayName, entryID) ==
    IF entryDisplayName = entryID THEN "" ELSE entryDisplayName

\* The elem map built for a record decoded as each variant.
icmpElem(serviceEntry) ==
    [display_name |-> filterServiceEntryDisplayName(serviceEntry.display_name, serviceEntry.id),
     description |-> serviceEntry.description,
     icmp_type |-> IF "icmp_type" \in DOMAIN serviceEntry
                   THEN Itoa(serviceEntry.icmp_type) ELSE <<>>,
     icmp_code |-> IF "icmp_code" \in DOMAIN serviceEntry
                   THEN Itoa(serviceEntry.icmp_code) ELSE <<>>,
     protocol |-> serviceEntry.protocol]

\* DestinationPorts and SourcePorts are optional lists: nil when not carried.
OptionalList(serviceEntry, name) ==
    IF name \in DOMAIN serviceEntry THEN serviceEntry[name] ELSE <<>>

l4Elem(serviceEntry) ==
    [display_name |-> filterServiceEntryDisplayName(serviceEntry.display_name, serviceEntry.id),
     description |-> serviceEntry.description,
     destination_ports |-> OptionalList(serviceEntry, "destination_ports"),
     source_ports |-> OptionalList(serviceEntry, "source_ports"),
     protocol |-> serviceEntry.l4_protocol]

etherElem(serviceEntry) ==
    [display_name |-> filterServiceEntryDisplayName(serviceEntry.display_name, serviceEntry.id),
     description |-> serviceEntry.description,
     ether_type |-> serviceEntry.ether_type]

ipProtElem(serviceEntry) ==
    [display_name |-> filterServiceEntryDisplayName(serviceEntry.display_name, serviceEntry.id),
     description |-> serviceEntry.description,
     protocol |-> serviceEntry.protocol_number]

\* A mutant of algElem: the last destination port is taken.
algElemLast(serviceEntry) ==
    [display_name |-> filterServiceEntryDisplayName(serviceEntry.display_name, serviceEntry.id),
     description |-> serviceEntry.description,
     algorithm |-> serviceEntry.alg,
     destination_port |-> serviceEntry.destination_ports[Len(serviceEntry.destination_ports)],
     source_ports |-> OptionalList(serviceEntry, "source_ports")]

\* DestinationPorts[0] of the code is element 1 of the sequence.
algElem(serviceEntry) ==
    [display_name |-> filterServiceEntryDisplayName(serviceEntry.display_name, serviceEntry.id),
     description |-> serviceEntry.description,
     algorithm |-> serviceEntry.alg,
     destination_port |-> serviceEntry.destination_ports[1],
     source_ports |-> OptionalList(serviceEntry, "source_ports")]

igmpElem(serviceEntry) ==
    [display_name |-> filterServiceEntryDisplayName(serviceEntry.display_name, serviceEntry.id),
     description |-> serviceEntry.description]

\* The six lists the loop appends to, all nil before the loop.
EmptyLists ==
    [icmpEntriesList |-> <<>>, l4EntriesList |-> <<>>, igmpEntriesList |-> <<>>,
     etherEntriesList |-> <<>>, ipProtEntriesList |-> <<>>, algEntriesList |-> <<>>]

\* A mutant of the chain: the variants are tried in the order of the encode
\* pass, IGMP third.
decodeEntryEncodeOrder(entry, lists) ==
    IF ConvertToGolang(entry, ICMPTypeServiceEntryBindingType)
    THEN [err |-> NoErr,
          lists |-> [lists EXCEPT !.icmpEntriesList = Append(@, icmpElem(entry))]]
    ELSE IF ConvertToGolang(entry, L4PortSetServiceEntryBindingType)
    THEN [err |-> NoErr,
          lists |-> [lists EXCEPT !.l4EntriesList = Append(@, l4Elem(entry))]]
    ELSE IF ConvertToGolang(entry, IGMPTypeServiceEntryBindingType)
    THEN [err |-> NoErr,
          lists |-> [lists EXCEPT !.igmpEntriesList = Append(@, igmpElem(entry))]]
    ELSE IF ConvertToGolang(entry, EtherTypeServiceEntryBindingType)
    THEN [err |-> NoErr,
          lists |-> [lists EXCEPT !.etherEntriesList = Append(@, etherElem(entry))]]
    ELSE IF ConvertToGolang(entry, IPProtocolServiceEntryBindingType)
    THEN [err |-> NoErr,
          lists |-> [lists EXCEPT !.ipProtEntriesList = Append(@, ipProtElem(entry))]]
    ELSE IF ConvertToGolang(entry, ALGTypeServiceEntryBindingType)
    THEN [err |-> NoErr,
          lists |-> [lists EXCEPT !.algEntriesList = Append(@, algElem(entry))]]
    ELSE [err |-> "igmpErrs[0]", lists |-> lists]

\* The body of the loop for one entry: the chain of ConvertToGolang trials,
\* each tried only when all before it returned errors.  err is igmpErrs[0]
\* when the last trial fails too.
decodeEntry(entry, lists) ==
    IF ConvertToGolang(entry, ICMPTypeServiceEntryBindingType)
    THEN [err |-> NoErr,
          lists |-> [lists EXCEPT !.icmpEntriesList = Append(@, icmpElem(entry))]]
    ELSE IF ConvertToGolang(entry, L4PortSetServiceEntryBindingType)
    THEN [err |-> NoErr,
          lists |-> [lists EXCEPT !.l4EntriesList = Append(@, l4Elem(entry))]]
    ELSE IF ConvertToGolang(entry, EtherTypeServiceEntryBindingType)
    THEN [err |-> NoErr,
          lists |-> [lists EXCEPT !.etherEntriesList = Append(@, etherElem(entry))]]
    ELSE IF ConvertToGolang(entry, IPProtocolServiceEntryBindingType)
    THEN [err |-> NoErr,
          lists |-> [lists EXCEPT !.ipProtEntriesList = Append(@, ipProtElem(entry))]]
    ELSE IF ConvertToGolang(entry, ALGTypeServiceEntryBindingType)
    THEN [err |-> NoErr,
          lists |-> [lists EXCEPT !.algEntriesList = Append(@, algElem(entry))]]
    ELSE IF ConvertToGolang(entry, IGMPTypeServiceEntryBindingType)
    THEN [err |-> NoErr,
          lists |-> [lists EXCEPT !.igmpEntriesList = Append(@, igmpElem(entry))]]
    ELSE [err |-> "igmpErrs[0]", lists |-> lists]

\* A mutant of the loop: a record of no variant is skipped.
RECURSIVE decodeLoopSkipping(_, _)
decodeLoopSkipping(serviceEntries, lists) ==
    IF serviceEntries = <<>> THEN [err |-> NoErr, lists |-> lists]
    ELSE LET r == decodeEntry(Head(serviceEntries), lists)
         IN  decodeLoopSkipping(Tail(serviceEntries), r.lists)

\* for _, entry := range obj.ServiceEntries: returns from Read at the first
\* record of no variant.
RECURSIVE decodeLoop(_, _)
decodeLoop(serviceEntries, lists) ==
    IF serviceEntries = <<>> THEN [err |-> NoErr, lists |-> lists]
    ELSE LET r == decodeEntry(Head(serviceEntries), lists)
         IN  IF r.err # NoErr THEN r
             ELSE decodeLoop(Tail(serviceEntries), r.lists)

\* The set a list is turned into when d.Set stores it under a TypeSet key.
ListToSet(list) == {list[i] : i \in DOMAIN list}

\* d.Set of the six lists: each becomes a set of entries, and the port lists
\* of an entry become sets, since the schema declares them TypeSet.
SetEntryCollections(lists) ==
    [icmp_entry |-> ListToSet(lists.icmpEntriesList),
     l4_port_set_entry |->
         {[e EXCEPT !.destination_ports = ListToSet(@), !.source_ports = ListToSet(@)] :
             e \in ListToSet(lists.l4EntriesList)},
     igmp_entry |-> ListToSet(lists.igmpEntriesList),
     ether_type_entry |-> ListToSet(lists.etherEntriesList),
     ip_protocol_entry |-> ListToSet(lists.ipProtEntriesList),
     algorithm_entry |->
         {[e EXCEPT !.source_ports = ListToSet(@)] : e \in ListToSet(lists.algEntriesList)}]

-----------------------------------------------------------------------------
(* Inputs: configurations and record lists *)

SubsetsUpTo(S, n) == {T \in SUBSET S : Cardinality(T) <= n}

\* Entries of the icmp_entry collection: type and code empty, canonical,
\* with a leading zero, and not a number.
IcmpInputs ==
    {[display_name |-> "", description |-> "", protocol |-> "ICMPv4",
      icmp_type |-> <<>>, icmp_code |-> <<>>],
     [display_name |-> "ping", description |-> "echo", protocol |-> "ICMPv4",
      icmp_type |-> <<"8">>, icmp_code |-> <<"0">>],
     [display_name |-> "", description |-> "", protocol |-> "ICMPv6",
      icmp_type |-> <<"0", "8">>, icmp_code |-> <<>>],
     [display_name |-> "", description |-> "", protocol |-> "ICMPv4",
      icmp_type |-> <<"x">>, icmp_code |-> <<>>],
     [display_name |-> "bad", description |-> "", protocol |-> "ICMPv6",
      icmp_type |-> <<"1", "0">>, icmp_code |-> <<"x">>]}

L4Inputs ==
    {[display_name |-> "web", description |-> "", protocol |-> "TCP",
      destination_ports |-> {"80", "443-445"}, source_ports |-> {}],
     [display_name |-> "", description |-> "dns", protocol |-> "UDP",
      destination_ports |-> {"53"}, source_ports |-> {"1024-65535"}]}

IgmpInputs ==
    {[display_name |-> "", description |-> ""],
     [display_name |-> "grp", description |-> "multicast"]}

EtherInputs == {[display_name |-> "", description |-> "", ether_type |-> 2048]}

IpProtInputs == {[display_name |-> "gre", description |-> "", protocol |-> 47]}

AlgInputs ==
    {[display_name |-> "", description |-> "", algorithm |-> "FTP",
      destination_port |-> "21", source_ports |-> {}],
     [display_name |-> "tftp", description |-> "", algorithm |-> "TFTP",
      destination_port |-> "69", source_ports |-> {"1024-65535", "69"}]}

EmptyConfig ==
    [icmp_entry |-> {}, l4_port_set_entry |-> {}, igmp_entry |-> {},
     ether_type_entry |-> {}, ip_protocol_entry |-> {}, algorithm_entry |-> {}]

\* The flat configurations the encode pass is run on.
Configs ==
    {[icmp_entry |-> i, l4_port_set_entry |-> l, igmp_entry |-> g,
      ether_type_entry |-> e, ip_protocol_entry |-> p, algorithm_entry |-> a] :
        i \in SubsetsUpTo(IcmpInputs, MaxIcmp),
        l \in SubsetsUpTo(L4Inputs, MaxOther),
        g \in SubsetsUpTo(IgmpInputs, MaxOther),
        e \in SubsetsUpTo(EtherInputs, MaxOther),
        p \in SubsetsUpTo(IpProtInputs, MaxOther),
        a \in SubsetsUpTo(AlgInputs, MaxOther)}

\* Records the remote side may return.  Each carries id, display_name and
\* description, and an ALG record at least one destination port, as the
\* remote API always sends them.  Besides one record of each variant there
\* are: ICMP records with type zero and with no type, a record whose display
\* name was defaulted to its id, an ALG record with two destination ports, a
\* record that carries the fields of two variants, and a record of no variant.
WireRecords ==
    {[id |-> "e1", display_name |-> "e1", description |-> "",
      resource_type |-> "ICMPTypeServiceEntry", protocol |-> "ICMPv4",
      icmp_type |-> 0],
     [id |-> "e2", display_name |-> "ping", description |-> "",
      resource_type |-> "ICMPTypeServiceEntry", protocol |-> "ICMPv6",
      icmp_code |-> 0],
     [id |-> "e3", display_name |-> "web", description |-> "",
      resource_type |-> "L4PortSetServiceEntry", l4_protocol |-> "TCP",
      destination_ports |-> <<"80">>],
     [id |-> "e4", display_name |-> "e4", description |-> "multicast",
      resource_type |-> "IGMPTypeServiceEntry"],
     [id |-> "e5", display_name |-> "arp", description |-> "",
      resource_type |-> "EtherTypeServiceEntry", ether_type |-> 2054],
     [id |-> "e6", display_name |-> "e6", description |-> "",
      resource_type |-> "IPProtocolServiceEntry", protocol_number |-> 6],
     [id |-> "e7", display_name |-> "ftp", description |-> "",
      resource_type |-> "ALGTypeServiceEntry", alg |-> "FTP",
      destination_ports |-> <<"21", "2121">>, source_ports |-> <<"1024-65535">>],
     [id |-> "e8", display_name |-> "both", description |-> "",
      resource_type |-> "EtherTypeServiceEntry", ether_type |-> 2048,
      protocol |-> "ICMPv4", protocol_number |-> 1],
     [id |-> "e9", display_name |-> "e9", description |-> "no variant"]}

RECURSIVE SeqsUpTo(_, _)
SeqsUpTo(S, n) ==
    IF n = 0 THEN {<<>>}
    ELSE SeqsUpTo(S, n - 1) \cup {Append(s, x) : s \in SeqsUpTo(S, n - 1), x \in S}

\* The entry lists the remote side may return.
WireLists == SeqsUpTo(WireRecords, MaxWire)

-----------------------------------------------------------------------------
(* The codec on its own: the encode pass and the decode loop applied to     *)
(* inputs drawn by Init.                                                    *)

NoListing ==
    [icmp_entry |-> <<>>, l4_port_set_entry |-> <<>>, igmp_entry |-> <<>>,
     ether_type_entry |-> <<>>, ip_protocol_entry |-> <<>>, algorithm_entry |-> <<>>]

NoObj == [exists |-> FALSE, id |-> "", revision |-> 0, service_entries |-> <<>>]

NoOp == [name |-> "none", err |-> NoErr, calls |-> <<>>, sent |-> <<>>, got |-> FALSE,
         deleteErr |-> NoErr]

\* The state of a resource the framework knows nothing about yet.
NewResourceData == [id |-> "", nsx_id |-> "", revision |-> 0, entries |-> EmptyConfig]

LifecycleInit ==
    /\ d = NewResourceData
    /\ remote = NoObj
    /\ op = NoOp
    /\ okReadRev = <<>>
    /\ getRev = <<>>

CodecIdle ==
    /\ cfg = EmptyConfig
    /\ phase = "idle"
    /\ listed = NoListing
    /\ enc = [err |-> NoErr, serviceEntries |-> <<>>]
    /\ wire = <<>>
    /\ dec = [err |-> NoErr, lists |-> EmptyLists]

CodecInit ==
    /\ LifecycleInit
    /\ listed = NoListing
    /\ enc = [err |-> NoErr, serviceEntries |-> <<>>]
    /\ dec = [err |-> NoErr, lists |-> EmptyLists]
    /\ \/ phase = "input" /\ cfg \in Configs /\ wire = <<>>
       \/ phase = "received" /\ cfg = EmptyConfig /\ wire \in WireLists

\* The encode pass on cfg, for one of the orders in which the collections
\* may be listed.
Encode ==
    /\ phase = "input"
    /\ \E lists \in Listings(cfg) :
          /\ listed' = lists
          /\ enc' = resourceNsxtPolicyServiceGetEntriesFromSchema(lists)
    /\ phase' = "encoded"
    /\ UNCHANGED <<cfg, wire, dec>>
    /\ UNCHANGED lifecycleVars

\* The decode loop on the records the encode pass returned without error.
DecodeEncoded ==
    /\ phase = "encoded"
    /\ enc.err = NoErr
    /\ wire' = enc.serviceEntries
    /\ dec' = decodeLoop(enc.serviceEntries, EmptyLists)
    /\ phase' = "roundtrip"
    /\ UNCHANGED <<cfg, listed, enc>>
    /\ UNCHANGED lifecycleVars

\* The decode loop on a record list received from the remote side.
DecodeReceived ==
    /\ phase = "received"
    /\ dec' = decodeLoop(wire, EmptyLists)
    /\ phase' = "decoded"
    /\ UNCHANGED <<cfg, listed, enc, wire>>
    /\ UNCHANGED lifecycleVars

CodecNext == Encode \/ DecodeEncoded \/ DecodeReceived

CodecSpec == CodecInit /\ [][CodecNext]_vars

-----------------------------------------------------------------------------
(* The handlers: Create, Read, Update, Delete against the remote client.    *)
(* remote is the one service object the model follows.  A handler is given  *)
(* the set F of the client calls that fail in it with an error other than   *)
(* "not found", and the set X of what another client of the remote side     *)
(* writes between the handler's own write and its final Read (none, or one  *)
(* entry list).  Its result holds the ResourceData and the remote object it *)
(* leaves, the error it returns, the client calls it made in order, the     *)
(* revision it handed to client.Update (sent), and whether the Get of Read  *)
(* returned the object (got).  The result of Delete also holds the error    *)
(* client.Delete gave it (deleteErr).                                       *)

IdErr == "Error obtaining service id"
ConversionErr == "Error during Service entries conversion"

\* The service the configuration may name in nsx_id.
ServiceIds == {"svc"}

\* What the remote side keeps of the entries it is sent: an entry sent
\* without a display name gets its id as display name.
RemoteEntries(serviceEntries) ==
    [i \in DOMAIN serviceEntries |->
        IF serviceEntries[i].display_name = ""
        THEN [serviceEntries[i] EXCEPT !.display_name = serviceEntries[i].id]
        ELSE serviceEntries[i]]

\* client.Get(id) returns the object.
GetSucceeds(id, rem, failGet) == ~failGet /\ rem.exists /\ rem.id = id

\* isNotFoundError(err), for the error of a client.Get(id) that did not
\* return the object.
isNotFoundError(id, rem, failGet) == ~failGet /\ ~(rem.exists /\ rem.id = id)

\* handleReadError(d, "Service", id, err): an object that is not found is
\* dropped from the state by clearing the id, and that is no error.
handleReadError(dd, notFound) ==
    IF notFound THEN [d |-> [dd EXCEPT !.id = ""], err |-> NoErr]
    ELSE [d |-> dd, err |-> "handleReadError"]

\* resourceNsxtPolicyServiceExists: TRUE only when client.Get returns no
\* error; a failing Get is logged and reported as "does not exist".
resourceNsxtPolicyServiceExists(id, rem, failGet) == GetSucceeds(id, rem, failGet)

\* getOrGenerateID(d, connector, resourceNsxtPolicyServiceExists): "initialize
\* resource Id and verify this ID is not yet used".  The id is the configured
\* nsx_id, checked with the presence checker, or else a generated one.
getOrGenerateID(dd, rem, failGet) ==
    IF dd.nsx_id = "" THEN [id |-> newUUID(0), err |-> NoErr, calls |-> <<>>]
    ELSE IF resourceNsxtPolicyServiceExists(dd.nsx_id, rem, failGet)
    THEN [id |-> "", err |-> "already exists", calls |-> <<"Get">>]
    ELSE [id |-> dd.nsx_id, err |-> NoErr, calls |-> <<"Get">>]

\* A mutant of ConversionFailed: errc is not looked at.
ConversionNeverFails(r) == FALSE

\* if errc != nil, in Create and in Update.
ConversionFailed(r) == r.err # NoErr

\* A mutant of UpdateRevision: the revision is left at its zero value.
UpdateRevisionZero(dd) == 0

\* revision := int64(d.Get("revision").(int)), in Update.
UpdateRevision(dd) == dd.revision

\* The remote object after another client has replaced its entries by the
\* list in X, if X holds one.
Interleaved(rem, X) ==
    IF X = {} THEN rem
    ELSE [rem EXCEPT !.revision = rem.revision + 1,
                     !.service_entries = CHOOSE l \in X : TRUE]

\* resourceNsxtPolicyServiceRead.  The fields of the object are stored as
\* soon as Get returns; the six collections only after the whole loop.
resourceNsxtPolicyServiceRead(dd, rem, F) ==
    IF dd.id = ""
    THEN [d |-> dd, remote |-> rem, err |-> IdErr, calls |-> <<>>,
          sent |-> <<>>, got |-> FALSE]
    ELSE IF ~GetSucceeds(dd.id, rem, "Read.Get" \in F)
    THEN LET h == handleReadError(dd, isNotFoundError(dd.id, rem, "Read.Get" \in F))
         IN  [d |-> h.d, remote |-> rem, err |-> h.err, calls |-> <<"Get">>,
              sent |-> <<>>, got |-> FALSE]
    ELSE LET d1 == [dd EXCEPT !.nsx_id = dd.id, !.revision = rem.revision]
             r  == decodeLoop(rem.service_entries, EmptyLists)
         IN  IF r.err # NoErr
             THEN [d |-> d1, remote |-> rem, err |-> r.err, calls |-> <<"Get">>,
                   sent |-> <<>>, got |-> TRUE]
             ELSE [d |-> [d1 EXCEPT !.entries = SetEntryCollections(r.lists)],
                   remote |-> rem, err |-> NoErr, calls |-> <<"Get">>,
                   sent |-> <<>>, got |-> TRUE]

\* resourceNsxtPolicyServiceCreate.  client.Patch creates the object, or
\* replaces the one that has the id.
resourceNsxtPolicyServiceCreate(dd, rem, lists, F, X) ==
    LET g == getOrGenerateID(dd, rem, "Exists.Get" \in F)
        c == resourceNsxtPolicyServiceGetEntriesFromSchema(lists)
    IN  IF g.err # NoErr
        THEN [d |-> dd, remote |-> rem, err |-> g.err, calls |-> g.calls,
              sent |-> <<>>, got |-> FALSE]
        ELSE IF ConversionFailed(c)
        THEN [d |-> dd, remote |-> rem, err |-> ConversionErr, calls |-> g.calls,
              sent |-> <<>>, got |-> FALSE]
        ELSE IF "Patch" \in F
        THEN [d |-> dd, remote |-> rem, err |-> "handleCreateError",
              calls |-> Append(g.calls, "Patch"), sent |-> <<>>, got |-> FALSE]
        ELSE LET rem1 == [exists |-> TRUE, id |-> g.id,
                          revision |-> IF rem.exists /\ rem.id = g.id /\ dd.nsx_id # ""
                                       THEN rem.revision + 1 ELSE 0,
                          service_entries |-> RemoteEntries(c.serviceEntries)]
                 d1 == [dd EXCEPT !.id = g.id, !.nsx_id = g.id]
                 r  == resourceNsxtPolicyServiceRead(d1, Interleaved(rem1, X), F)
             IN  [r EXCEPT !.calls = Append(g.calls, "Patch") \o r.calls]

\* resourceNsxtPolicyServiceUpdate.  client.Update is rejected by the remote
\* side when the object is gone or the revision sent is not the object's.
resourceNsxtPolicyServiceUpdate(dd, rem, lists, F, X) ==
    IF dd.id = ""
    THEN [d |-> dd, remote |-> rem, err |-> IdErr, calls |-> <<>>,
          sent |-> <<>>, got |-> FALSE]
    ELSE LET revision == UpdateRevision(dd)
             c == resourceNsxtPolicyServiceGetEntriesFromSchema(lists)
         IN  IF ConversionFailed(c)
             THEN [d |-> dd, remote |-> rem, err |-> ConversionErr, calls |-> <<>>,
                   sent |-> <<>>, got |-> FALSE]
             ELSE IF "Update" \in F \/ ~rem.exists \/ rem.id # dd.id
                     \/ rem.revision # revision
             THEN [d |-> dd, remote |-> rem, err |-> "handleUpdateError",
                   calls |-> <<"Update">>, sent |-> <<revision>>, got |-> FALSE]
             ELSE LET rem1 == [rem EXCEPT !.revision = rem.revision + 1,
                                          !.service_entries = RemoteEntries(c.serviceEntries)]
                      r == resourceNsxtPolicyServiceRead(dd, Interleaved(rem1, X), F)
                  IN  [r EXCEPT !.calls = <<"Update">> \o r.calls,
                                !.sent = <<revision>>]

\* err := client.Delete(id): the object is removed, or the call fails because
\* of the transport or because the object is not there.
clientDelete(id, rem, failDelete) ==
    IF failDelete THEN "client.Delete failed"
    ELSE IF ~(rem.exists /\ rem.id = id) THEN "not found"
    ELSE NoErr

\* return nil, the last statement of Delete, whatever err holds.
DeleteReturn(err) == NoErr

\* resourceNsxtPolicyServiceDelete: the error of client.Delete is handed to
\* handleDeleteError and the function returns nil.
resourceNsxtPolicyServiceDelete(dd, rem, F) ==
    IF dd.id = ""
    THEN [d |-> dd, remote |-> rem, err |-> IdErr, calls |-> <<>>,
          sent |-> <<>>, got |-> FALSE, deleteErr |-> NoErr]
    ELSE LET err == clientDelete(dd.id, rem, "Delete" \in F)
         IN  [d |-> dd,
              remote |-> IF err = NoErr THEN NoObj ELSE rem,
              err |-> DeleteReturn(err), calls |-> <<"Delete">>,
              sent |-> <<>>, got |-> FALSE, deleteErr |-> err]

\* The configurations the handlers are run on: none, one ICMP entry, a valid
\* and a malformed ICMP entry, one entry in each collection.
PlanConfigs ==
    {EmptyConfig,
     [EmptyConfig EXCEPT !.icmp_entry =
         {[display_name |-> "ping", description |-> "echo", protocol |-> "ICMPv4",
           icmp_type |-> <<"8">>, icmp_code |-> <<"0">>]}],
     [EmptyConfig EXCEPT !.icmp_entry =
         {[display_name |-> "", description |-> "", protocol |-> "ICMPv4",
           icmp_type |-> <<>>, icmp_code |-> <<>>],
          [display_name |-> "", description |-> "", protocol |-> "ICMPv4",
           icmp_type |-> <<"x">>, icmp_code |-> <<>>]}],
     [icmp_entry |->
         {[display_name |-> "", description |-> "", protocol |-> "ICMPv4",
           icmp_type |-> <<>>, icmp_code |-> <<>>]},
      l4_port_set_entry |->
         {[display_name |-> "web", description |-> "", protocol |-> "TCP",
           destination_ports |-> {"80", "443-445"}, source_ports |-> {}]},
      igmp_entry |-> {[display_name |-> "", description |-> ""]},
      ether_type_entry |-> EtherInputs,
      ip_protocol_entry |-> IpProtInputs,
      algorithm_entry |->
         {[display_name |-> "", description |-> "", algorithm |-> "FTP",
           destination_port |-> "21", source_ports |-> {}]}]}

\* The entry lists another client of the remote side may leave in the object.
ExternalLists ==
    {<<[id |-> "e1", display_name |-> "e1", description |-> "",
        resource_type |-> "ICMPTypeServiceEntry", protocol |-> "ICMPv4",
        icmp_type |-> 0]>>,
     <<[id |-> "e4", display_name |-> "grp", description |-> "",
        resource_type |-> "IGMPTypeServiceEntry"],
       [id |-> "e9", display_name |-> "e9", description |-> "no variant"]>>}

\* What another client may write while a handler runs on rem: nothing, or
\* one list when the revision counter has room for two more writes.
Interleavings(rem) ==
    {{}} \cup (IF rem.revision + 1 < MaxRevision THEN {{l} : l \in ExternalLists} ELSE {})

\* The framework calls Create for a resource that has no id yet.
Create ==
    /\ d.id = ""
    /\ remote.revision < MaxRevision
    /\ \E lists \in Listings(d.entries), F \in SUBSET {"Exists.Get", "Patch", "Read.Get"},
          X \in Interleavings(remote) :
          \E res \in {resourceNsxtPolicyServiceCreate(d, remote, lists, F, X)} :
              /\ d' = res.d
              /\ remote' = res.remote
              /\ op' = [name |-> "Create", err |-> res.err, calls |-> res.calls,
                        sent |-> res.sent, got |-> res.got, deleteErr |-> NoErr]
              /\ getRev' = IF res.got THEN <<res.remote.revision>> ELSE getRev
              /\ okReadRev' = IF res.got /\ res.err = NoErr
                              THEN <<res.remote.revision>> ELSE okReadRev
    /\ UNCHANGED codecVars

\* The framework calls Read, Update and Delete for a resource that has an id.
Read ==
    /\ d.id # ""
    /\ \E F \in SUBSET {"Read.Get"} :
          \E res \in {resourceNsxtPolicyServiceRead(d, remote, F)} :
              /\ d' = res.d
              /\ remote' = res.remote
              /\ op' = [name |-> "Read", err |-> res.err, calls |-> res.calls,
                        sent |-> res.sent, got |-> res.got, deleteErr |-> NoErr]
              /\ getRev' = IF res.got THEN <<res.remote.revision>> ELSE getRev
              /\ okReadRev' = IF res.got /\ res.err = NoErr
                              THEN <<res.remote.revision>> ELSE okReadRev
    /\ UNCHANGED codecVars

Update ==
    /\ d.id # ""
    /\ remote.revision < MaxRevision
    /\ \E lists \in Listings(d.entries), F \in SUBSET {"Update", "Read.Get"},
          X \in Interleavings(remote) :
          \E res \in {resourceNsxtPolicyServiceUpdate(d, remote, lists, F, X)} :
              /\ d' = res.d
              /\ remote' = res.remote
              /\ op' = [name |-> "Update", err |-> res.err, calls |-> res.calls,
                        sent |-> res.sent, got |-> res.got, deleteErr |-> NoErr]
              /\ getRev' = IF res.got THEN <<res.remote.revision>> ELSE getRev
              /\ okReadRev' = IF res.got /\ res.err = NoErr
                              THEN <<res.remote.revision>> ELSE okReadRev
    /\ UNCHANGED codecVars

Delete ==
    /\ d.id # ""
    /\ \E F \in SUBSET {"Delete"} :
          \E res \in {resourceNsxtPolicyServiceDelete(d, remote, F)} :
              /\ d' = res.d
              /\ remote' = res.remote
              /\ op' = [name |-> "Delete", err |-> res.err, calls |-> res.calls,
                        sent |-> res.sent, got |-> res.got, deleteErr |-> res.deleteErr]
    /\ UNCHANGED <<getRev, okReadRev>>
    /\ UNCHANGED codecVars

\* After a Delete that returned nil the framework drops the resource's state.
Forget ==
    /\ op.name = "Delete"
    /\ op.err = NoErr
    /\ d' = NewResourceData
    /\ op' = [NoOp EXCEPT !.name = "Forget"]
    /\ getRev' = <<>>
    /\ okReadRev' = <<>>
    /\ UNCHANGED remote
    /\ UNCHANGED codecVars

\* The framework loads the configuration the user wrote: the six collections,
\* and the nsx_id while the resource has not been created.
SetConfig ==
    /\ \E c \in PlanConfigs, n \in ServiceIds \cup {""} :
          d' = [d EXCEPT !.entries = c, !.nsx_id = IF d.id = "" THEN n ELSE @]
    /\ op' = [NoOp EXCEPT !.name = "SetConfig"]
    /\ UNCHANGED <<remote, getRev, okReadRev>>
    /\ UNCHANGED codecVars

\* Another client of the remote side replaces the entries of the object.
ExternalWrite ==
    /\ remote.exists
    /\ remote.revision < MaxRevision
    /\ \E l \in ExternalLists :
          remote' = [remote EXCEPT !.revision = @ + 1, !.service_entries = l]
    /\ op' = [NoOp EXCEPT !.name = "ExternalWrite"]
    /\ UNCHANGED <<d, getRev, okReadRev>>
    /\ UNCHANGED codecVars

Init == LifecycleInit /\ CodecIdle

Next == Create \/ Read \/ Update \/ Delete \/ Forget \/ SetConfig \/ ExternalWrite

Spec == Init /\ [][Next]_vars

-----------------------------------------------------------------------------
(* Vocabulary of the properties, written without the operators above *)

Numerals == {"0", "1", "2", "3", "4", "5", "6", "7", "8", "9"}

\* s is a decimal integer: an optional sign and at least one digit.
IsNumeric(s) ==
    /\ s # <<>>
    /\ LET body == IF s[1] \in {"+", "-"} THEN Tail(s) ELSE s
       IN  body # <<>> /\ \A i \in DOMAIN body : body[i] \in Numerals

\* s is the numeral Go prints for its value: no plus sign, no leading zero,
\* no minus zero.
IsCanonical(s) ==
    /\ IsNumeric(s)
    /\ s[1] # "+"
    /\ LET body == IF s[1] = "-" THEN Tail(s) ELSE s
       IN  (Len(body) > 1 \/ s[1] = "-") => body[1] # "0"

Malformed(e) ==
    \/ e.icmp_type # <<>> /\ ~IsNumeric(e.icmp_type)
    \/ e.icmp_code # <<>> /\ ~IsNumeric(e.icmp_code)

AllCanonical(c) ==
    \A e \in c.icmp_entry :
        /\ e.icmp_type = <<>> \/ IsCanonical(e.icmp_type)
        /\ e.icmp_code = <<>> \/ IsCanonical(e.icmp_code)

\* The order in which the encode pass converts the collections.
EncodeOrder ==
    <<[key |-> "icmp_entry", type |-> "ICMPTypeServiceEntry"],
      [key |-> "l4_port_set_entry", type |-> "L4PortSetServiceEntry"],
      [key |-> "igmp_entry", type |-> "IGMPTypeServiceEntry"],
      [key |-> "ether_type_entry", type |-> "EtherTypeServiceEntry"],
      [key |-> "ip_protocol_entry", type |-> "IPProtocolServiceEntry"],
      [key |-> "algorithm_entry", type |-> "ALGTypeServiceEntry"]>>

EncodeRank(type) == CHOOSE k \in DOMAIN EncodeOrder : EncodeOrder[k].type = type

\* The order in which the decode loop tries the variants, with the list each
\* fills and the fields a record must carry to decode as the variant.
TrialOrder ==
    <<[list |-> "icmpEntriesList", fields |-> {"resource_type", "protocol"}],
      [list |-> "l4EntriesList", fields |-> {"resource_type", "l4_protocol"}],
      [list |-> "etherEntriesList", fields |-> {"resource_type", "ether_type"}],
      [list |-> "ipProtEntriesList", fields |-> {"resource_type", "protocol_number"}],
      [list |-> "algEntriesList", fields |-> {"resource_type", "alg", "destination_ports"}],
      [list |-> "igmpEntriesList", fields |-> {"resource_type"}]>>

Fits(r, k) == TrialOrder[k].fields \subseteq DOMAIN r

\* The first trial a record passes, 0 when it passes none.
FirstFit(r) ==
    IF \E k \in DOMAIN TrialOrder : Fits(r, k)
    THEN CHOOSE k \in DOMAIN TrialOrder : Fits(r, k) /\ \A j \in 1..(k - 1) : ~Fits(r, j)
    ELSE 0

\* The records the loop gets through: all of them, or those before the first
\* record of no variant.
Processed(records) ==
    LET bad == {i \in DOMAIN records : FirstFit(records[i]) = 0}
    IN  IF bad = {} THEN records
        ELSE SubSeq(records, 1, (CHOOSE i \in bad : \A j \in bad : i <= j) - 1)

\* The processed records whose first passing trial is k, in order.
RecordsOf(records, k) == SelectSeq(Processed(records), LAMBDA r : FirstFit(r) = k)

Decoded == phase \in {"roundtrip", "decoded"}
Encoded == phase \in {"encoded", "roundtrip"}

-----------------------------------------------------------------------------
(* Properties of the codec *)

\* C1, as stated: for every configuration whose ICMP strings are empty or
\* numeric, decoding the encoded records gives back the six collections with
\* the same entries.
RoundTripNumeric ==
    phase = "roundtrip" =>
        dec.err = NoErr /\ SetEntryCollections(dec.lists) = cfg

\* C1, the cases in which the round trip does hold: every configuration whose
\* ICMP strings are empty or canonical numerals (no plus sign, no leading
\* zero) is given back as it was.
RoundTripCanonical ==
    (phase = "roundtrip" /\ AllCanonical(cfg)) =>
        dec.err = NoErr /\ SetEntryCollections(dec.lists) = cfg

RoundTripWitness ==
    /\ phase = "roundtrip"
    /\ AllCanonical(cfg)
    /\ \A k \in DOMAIN EncodeOrder : cfg[EncodeOrder[k].key] # {}
    /\ \E e \in cfg.icmp_entry : e.icmp_type # <<>> /\ e.icmp_code = <<"0">>
    /\ SetEntryCollections(dec.lists) = cfg

\* C2, as stated: a malformed ICMP entry makes the encode pass return an
\* error and an empty record list.
ParseFailureReturnsNoRecords ==
    (phase = "encoded" /\ \E e \in cfg.icmp_entry : Malformed(e)) =>
        enc.err # NoErr /\ enc.serviceEntries = <<>>

\* The place of the first malformed entry in the listing of icmp_entry.
FirstMalformed ==
    CHOOSE i \in DOMAIN listed.icmp_entry :
        /\ Malformed(listed.icmp_entry[i])
        /\ \A j \in 1..(i - 1) : ~Malformed(listed.icmp_entry[j])

\* C2, amended: the encode pass returns an error exactly when an ICMP entry
\* is malformed, and the list returned with the error holds the records of
\* the ICMP entries listed before the first malformed one and nothing else.
ParseFailureReturnsPrefix ==
    phase = "encoded" =>
        /\ (enc.err # NoErr) <=> (\E e \in cfg.icmp_entry : Malformed(e))
        /\ enc.err # NoErr =>
            /\ Len(enc.serviceEntries) = FirstMalformed - 1
            /\ \A i \in DOMAIN enc.serviceEntries :
                /\ enc.serviceEntries[i].resource_type = "ICMPTypeServiceEntry"
                /\ enc.serviceEntries[i].protocol = listed.icmp_entry[i].protocol
                /\ enc.serviceEntries[i].display_name = listed.icmp_entry[i].display_name

ParseFailureWitness ==
    /\ phase = "encoded"
    /\ enc.err # NoErr
    /\ FirstMalformed = 2
    /\ Len(enc.serviceEntries) = 1
    /\ cfg.l4_port_set_entry # {}

\* C5: a successful encode returns one record per configured entry, the
\* records of icmp_entry first, then those of l4_port_set_entry, igmp_entry,
\* ether_type_entry, ip_protocol_entry and algorithm_entry.
CollectionOrder ==
    (Encoded /\ enc.err = NoErr) =>
        LET recs == enc.serviceEntries
        IN  /\ \A i, j \in DOMAIN recs :
                  i < j => EncodeRank(recs[i].resource_type) <= EncodeRank(recs[j].resource_type)
            /\ \A k \in DOMAIN EncodeOrder :
                  Cardinality({i \in DOMAIN recs : recs[i].resource_type = EncodeOrder[k].type})
                      = Cardinality(cfg[EncodeOrder[k].key])

CollectionOrderWitness ==
    /\ phase = "encoded"
    /\ enc.err = NoErr
    /\ \A k \in DOMAIN EncodeOrder : Cardinality(cfg[EncodeOrder[k].key]) = 1
    /\ Len(enc.serviceEntries) = 6
    /\ \A k \in DOMAIN EncodeOrder : enc.serviceEntries[k].resource_type = EncodeOrder[k].type

\* C7: the display_name of every decoded entry is empty when the record's
\* display name equals its id, and the record's display name otherwise.
DisplayNameSuppression ==
    Decoded =>
        \A k \in DOMAIN TrialOrder :
            LET list == dec.lists[TrialOrder[k].list]
                recs == RecordsOf(wire, k)
            IN  /\ Len(list) = Len(recs)
                /\ \A i \in DOMAIN recs :
                      list[i].display_name =
                          IF recs[i].display_name = recs[i].id THEN "" ELSE recs[i].display_name

DisplayNameWitness ==
    /\ phase = "decoded"
    /\ dec.err = NoErr
    /\ \E r \in ListToSet(wire) : r.display_name = r.id /\ FirstFit(r) = 6
    /\ \E r \in ListToSet(wire) : r.display_name # r.id /\ FirstFit(r) = 1
    /\ \E e \in ListToSet(dec.lists.igmpEntriesList) : e.display_name = ""
    /\ \E e \in ListToSet(dec.lists.icmpEntriesList) : e.display_name = "ping"

\* C8: an empty icmp_type or icmp_code is encoded as a field the record does
\* not carry and "0" as the integer 0; a record that does not carry the
\* field decodes to the empty string and one that carries 0 to "0".
EmptyOptional ==
    /\ (Encoded /\ enc.err = NoErr) =>
          \A i \in DOMAIN listed.icmp_entry :
              LET e == listed.icmp_entry[i]
                  r == enc.serviceEntries[i]
              IN  /\ e.icmp_type = <<>> <=> "icmp_type" \notin DOMAIN r
                  /\ e.icmp_code = <<>> <=> "icmp_code" \notin DOMAIN r
                  /\ e.icmp_type = <<"0">> => r.icmp_type = 0
                  /\ e.icmp_code = <<"0">> => r.icmp_code = 0
    /\ Decoded =>
          LET list == dec.lists.icmpEntriesList
              recs == RecordsOf(wire, 1)
          IN  /\ Len(list) = Len(recs)
              /\ \A i \in DOMAIN recs :
                    /\ "icmp_type" \notin DOMAIN recs[i] <=> list[i].icmp_type = <<>>
                    /\ "icmp_code" \notin DOMAIN recs[i] <=> list[i].icmp_code = <<>>
                    /\ ("icmp_type" \in DOMAIN recs[i] /\ recs[i].icmp_type = 0)
                           => list[i].icmp_type = <<"0">>
                    /\ ("icmp_code" \in DOMAIN recs[i] /\ recs[i].icmp_code = 0)
                           => list[i].icmp_code = <<"0">>

EmptyOptionalWitness ==
    /\ phase = "roundtrip"
    /\ \E i \in DOMAIN listed.icmp_entry :
          /\ listed.icmp_entry[i].icmp_type = <<>>
          /\ "icmp_type" \notin DOMAIN wire[i]
    /\ \E i \in DOMAIN listed.icmp_entry :
          /\ listed.icmp_entry[i].icmp_code = <<"0">>
          /\ "icmp_code" \in DOMAIN wire[i]
          /\ wire[i].icmp_code = 0
    /\ \E e \in ListToSet(dec.lists.icmpEntriesList) : e.icmp_type = <<>>
    /\ \E e \in ListToSet(dec.lists.icmpEntriesList) : e.icmp_code = <<"0">>

\* C9: the record of an Algorithm entry carries exactly one destination
\* port, the entry's destination_port; an Algorithm record decodes to the
\* first of its destination ports.
AlgorithmSingleDestination ==
    /\ (Encoded /\ enc.err = NoErr) =>
          LET recs == SelectSeq(enc.serviceEntries,
                                LAMBDA r : r.resource_type = "ALGTypeServiceEntry")
          IN  /\ Len(recs) = Len(listed.algorithm_entry)
              /\ \A i \in DOMAIN recs :
                    recs[i].destination_ports = <<listed.algorithm_entry[i].destination_port>>
    /\ Decoded =>
          LET list == dec.lists.algEntriesList
              recs == RecordsOf(wire, 5)
          IN  /\ Len(list) = Len(recs)
              /\ \A i \in DOMAIN recs :
                    list[i].destination_port = recs[i].destination_ports[1]

AlgorithmWitness ==
    /\ phase = "decoded"
    /\ dec.err = NoErr
    /\ \E r \in ListToSet(wire) : FirstFit(r) = 5 /\ Len(r.destination_ports) = 2
    /\ \E e \in ListToSet(dec.lists.algEntriesList) : e.destination_port = "21"

\* C10: every record the loop gets through is appended to one list, that of
\* the first variant, in the order ICMP, L4 port set, Ether type, IP
\* protocol, Algorithm, IGMP, that it decodes as.
FirstMatchClassification ==
    Decoded =>
        /\ \A k \in DOMAIN TrialOrder :
              Len(dec.lists[TrialOrder[k].list]) = Len(RecordsOf(wire, k))
        /\ Len(dec.lists.icmpEntriesList) + Len(dec.lists.l4EntriesList)
             + Len(dec.lists.etherEntriesList) + Len(dec.lists.ipProtEntriesList)
             + Len(dec.lists.algEntriesList) + Len(dec.lists.igmpEntriesList)
           = Len(Processed(wire))

FirstMatchWitness ==
    /\ phase = "decoded"
    /\ dec.err = NoErr
    /\ \E i \in DOMAIN wire :
          /\ Fits(wire[i], 1) /\ Fits(wire[i], 3) /\ Fits(wire[i], 4) /\ Fits(wire[i], 6)
    /\ \E i \in DOMAIN wire : FirstFit(wire[i]) = 3
    /\ Len(dec.lists.icmpEntriesList) = 1
    /\ Len(dec.lists.etherEntriesList) = 1
    /\ Len(dec.lists.igmpEntriesList) = 0

-----------------------------------------------------------------------------
(* Properties of the handlers *)

HoldsMalformed(dd) == \E e \in dd.entries.icmp_entry : Malformed(e)

RemoteWrites == {"Patch", "Update", "Delete"}

\* C3, as stated: Create and Update on a configuration with a malformed ICMP
\* entry fail with the conversion error before any call to the remote client.
FailFastBeforeAnyCall ==
    (op.name \in {"Create", "Update"} /\ HoldsMalformed(d)) =>
        op.err = ConversionErr /\ op.calls = <<>>

\* C3, amended: Create and Update on a configuration with a malformed ICMP
\* entry fail, and make no remote write.  Update makes no remote call at
\* all.  Create makes at most the Get that checks a configured nsx_id.  The
\* error is the conversion error unless that check found the nsx_id in use.
FailFastBeforeAnyWrite ==
    (op.name \in {"Create", "Update"} /\ HoldsMalformed(d)) =>
        /\ op.err # NoErr
        /\ \A i \in DOMAIN op.calls : op.calls[i] \notin RemoteWrites
        /\ op.name = "Update" => op.calls = <<>>
        /\ op.name = "Create" => op.calls = IF d.nsx_id = "" THEN <<>> ELSE <<"Get">>
        /\ \/ op.err = ConversionErr
           \/ /\ op.name = "Create" /\ op.err = "already exists"
              /\ remote.exists /\ remote.id = d.nsx_id

FailFastWitness ==
    /\ op.name = "Update"
    /\ HoldsMalformed(d)
    /\ d.id # ""
    /\ remote.exists
    /\ op.err = ConversionErr
    /\ op.calls = <<>>

HasUnknown(records) == \E i \in DOMAIN records : FirstFit(records[i]) = 0

\* C4: a Read whose Get returns an object with a record of no variant fails
\* with the error of the IGMP trial and leaves the six collections of the
\* configuration as they were, so the record is in none of them.
UnknownVariantRejected ==
    [][(op'.got /\ HasUnknown(remote'.service_entries)) =>
          (op'.err = "igmpErrs[0]" /\ d'.entries = d.entries)]_vars

UnknownVariantWitness ==
    /\ op.name = "Read"
    /\ op.got
    /\ HasUnknown(remote.service_entries)
    /\ op.err = "igmpErrs[0]"
    /\ d.entries.icmp_entry # {}
    /\ d.revision = remote.revision

\* C6, as stated: once a Read has returned nil, the revision Update sends is
\* the one stored by the most recent Read that returned nil.
RevisionFromLastSuccessfulRead ==
    [][(op'.name = "Update" /\ op'.sent # <<>> /\ okReadRev # <<>>) =>
          op'.sent = okReadRev]_vars

\* C6, amended: the revision Update sends is the one stored by the most
\* recent Read whose Get returned the object, also when that Read failed
\* afterwards in the decode loop, and zero when no Read has stored one.
RevisionFromLastRead ==
    [][(op'.name = "Update" /\ op'.sent # <<>>) =>
          op'.sent = IF getRev = <<>> THEN <<0>> ELSE getRev]_vars

RevisionWitness ==
    /\ op.name = "Update"
    /\ op.err = NoErr
    /\ op.sent = <<1>>
    /\ remote.revision = 2
    /\ okReadRev = <<2>>

\* C11: a Delete on a resource that has an id returns an error when its
\* client.Delete call failed, and returns nil only when the remote delete
\* succeeded.
DeleteErrorSurfaced ==
    (op.name = "Delete" /\ op.calls = <<"Delete">>) =>
        (op.err = NoErr <=> op.deleteErr = NoErr)

\* What the code does instead: such a Delete returns nil whether or not the
\* remote delete succeeded.
DeleteAlwaysNil ==
    (op.name = "Delete" /\ op.calls = <<"Delete">>) => op.err = NoErr

DeleteFailedWitness ==
    /\ op.name = "Delete"
    /\ op.deleteErr = "client.Delete failed"
    /\ op.err = NoErr
    /\ remote.exists /\ remote.id = d.id

====
